---- MODULE Spec2Model ----
(***************************************************************************)
(* A model of the Anatree (src/anatree.h): a binary decision tree over the *)
(* sorted symbols of the stored words.  A node is a record with the fields *)
(* of 'anatree::node'; a 'node::ptr' (std::unique_ptr<node>) is a sequence *)
(* of length 0 (nullptr) or 1 (the owned node); 'm_children' is indexed by *)
(* BOOLEAN exactly as in the source.  Words are sequences of symbols.      *)
(***************************************************************************)
EXTENDS Integers, Sequences, FiniteSets, TLC

(***************************************************************************)
(* Bounds of the model.                                                    *)
(***************************************************************************)
\* Symbols are 1..MaxSym (the value 0 is reserved, see NIL).
MaxSym == 3
\* Longest word given to insert or to a query.
MaxLen == 3
\* Largest number of words stored over all live trees, a fresh copy apart
\* (a tree of fewer than MaxWords words can be copied).
MaxWords == 3
\* Longest range of words given to insert(begin, end) or anatree(first, last).
MaxRange == 2
\* Longest word of such a range.
MaxRangeLen == 2
\* Longest word that holds the reserved symbol.
MaxNilLen == 2
\* Largest m_tree_size at which such a tree still receives words (a tree that
\* holds the reserved symbol can grow its counters without end).
MaxTreeSize == 9

\* node::NIL, the reserved symbol of a placeholder node.
NIL == 0

Symbols == 1..MaxSym

Words == UNION { [1..n -> Symbols] : n \in 0..MaxLen }

\* The words that hold the reserved symbol.
NilWords ==
  { w \in UNION { [1..n -> Symbols \cup {NIL}] : n \in 1..MaxNilLen } :
      \E i \in DOMAIN w : w[i] = NIL }

\* The two objects of the model: 'a' and a copy-constructed 'b'.
Objs == {"a", "b"}

\* The comparators the tree is instantiated with (std::less, std::greater).
Comparators == {"less", "greater"}

VARIABLES
  anatrees,   \* Objs -> <<>> (not constructed) or <<tree>>, tree a record of
              \*   the members m_char_comp, m_root, m_size, m_tree_size
  inserted,   \* history: Objs -> the words given to insert since the object
              \*   was constructed or cleared (for a copy: since its source was)
  bulk,       \* history: <<>>, or after a step insert(begin, end) or a
              \*   construction anatree(first, last) the record of the object
              \*   'pre' the call started from and of the range 'ws' it was given
  call        \* <<>>, or <<c>> while a member function of 'a' runs step by
              \*   step: c.op its name, c.w and c.key its word and the sorted
              \*   key, c.stack the frames of its recursive calls, innermost last

vars == <<anatrees, inserted, bulk, call>>

(***************************************************************************)
(* anatree::node                                                           *)
(***************************************************************************)
nullptr == <<>>

\* node() = default: a NIL node without children and without words.
node == [m_char |-> NIL, m_children |-> [b \in BOOLEAN |-> nullptr], m_words |-> {}]

\* static ptr make_node()
make_node == <<node>>

\* node::init without the default for a missing f_ptr: a faulty variant that
\* leaves the 'false' slot as it was given.
init_no_false(n, c, f_ptr, t_ptr) ==
  [n EXCEPT !.m_char = c,
            !.m_children = [b \in BOOLEAN |->
                              IF b THEN (IF t_ptr # nullptr THEN t_ptr ELSE make_node)
                                   ELSE f_ptr]]

\* void node::init(c, f_ptr, t_ptr), as the node it leaves behind.
init(n, c, f_ptr, t_ptr) ==
  [n EXCEPT !.m_char = c,
            !.m_children = [b \in BOOLEAN |->
                              IF b THEN (IF t_ptr # nullptr THEN t_ptr ELSE make_node)
                                   ELSE (IF f_ptr # nullptr THEN f_ptr ELSE make_node)]]

\* static ptr make_node(c, f_ptr, t_ptr): node(c, f_ptr, t_ptr) calls init.
make_node_c(c, f_ptr, t_ptr) == <<init(node, c, f_ptr, t_ptr)>>

(***************************************************************************)
(* The comparator and the canonical key                                    *)
(***************************************************************************)
\* m_char_comp that is std::less whatever Compare: a faulty variant.
m_char_comp_less(cmp, x, y) == x < y

\* m_char_comp(x, y)
m_char_comp(cmp, x, y) == IF cmp = "less" THEN x < y ELSE x > y

\* std::sort(ret.begin(), ret.end(), m_char_comp), as an insertion sort: x is
\* put in front of the first symbol that it sorts strictly before.
RECURSIVE SortInsert(_, _, _)
SortInsert(cmp, s, x) ==
  IF s = <<>> THEN <<x>>
  ELSE IF m_char_comp(cmp, x, Head(s)) THEN <<x>> \o s
  ELSE <<Head(s)>> \o SortInsert(cmp, Tail(s), x)

RECURSIVE sorted_word(_, _)
sorted_word(cmp, w) ==
  IF w = <<>> THEN <<>>
  ELSE SortInsert(cmp, sorted_word(cmp, Tail(w)), Head(w))

(***************************************************************************)
(* insert                                                                  *)
(***************************************************************************)
\* insert__done without the test 'm_words.contains(w)': a faulty variant that
\* counts every insert.
insert__done_always(self, p, w) ==
  [ret |-> <<[p[1] EXCEPT !.m_words = @ \cup {w}]>>,
   m_size |-> self.m_size + 1, m_tree_size |-> self.m_tree_size]

\* insert__done without 'p->m_words.insert(w)': a faulty variant that counts
\* the word and does not store it.
insert__done_count_only(self, p, w) ==
  IF w \notin p[1].m_words
    THEN [ret |-> p, m_size |-> self.m_size + 1, m_tree_size |-> self.m_tree_size]
    ELSE [ret |-> p, m_size |-> self.m_size, m_tree_size |-> self.m_tree_size]

\* Case 'Iterator done' of insert__rec: w is added to p->m_words and counted
\* unless it is already there.  The result is the returned pointer with the
\* counters as the call leaves them.
insert__done(self, p, w) ==
  IF w \notin p[1].m_words
    THEN [ret |-> <<[p[1] EXCEPT !.m_words = @ \cup {w}]>>,
          m_size |-> self.m_size + 1, m_tree_size |-> self.m_tree_size]
    ELSE [ret |-> p, m_size |-> self.m_size, m_tree_size |-> self.m_tree_size]

\* insert__behind without the hand-over of p's words to np: a faulty variant
\* that leaves them on the demoted node.
insert__behind_keep(p, c) == make_node_c(c, p, make_node)[1]

\* insert__behind without 'np->m_children[false]->m_words = Set()': a faulty
\* variant that copies the words of p to np and leaves them on p too.
insert__behind_copy(p, c) ==
  LET np0 == make_node_c(c, p, make_node)[1]
  IN  [np0 EXCEPT !.m_words = np0.m_children[FALSE][1].m_words]

\* Case 'Iterator behind' of insert__rec, up to the recursive call: the new
\* node np carrying c, with p as its 'false' child, a fresh NIL node as its
\* 'true' child, and the words of p handed over to np.
insert__behind(p, c) ==
  LET np0 == make_node_c(c, p, make_node)[1]
      np1 == [np0 EXCEPT !.m_words = np0.m_children[FALSE][1].m_words]
  IN  [np1 EXCEPT !.m_children[FALSE] = <<[@[1] EXCEPT !.m_words = {}]>>]

\* node_ptr insert__rec(p, w, curr, end).  'self' carries the members the
\* recursion updates; the result is the returned pointer with the updated
\* counters.  'curr' is an index into 'key', curr = Len(key) + 1 being 'end'.
RECURSIVE insert__rec(_, _, _, _, _)
insert__rec(self, p, w, key, curr) ==
  LET n == p[1] IN
  IF curr = Len(key) + 1 THEN
    \* Case: Iterator done
    insert__done(self, p, w)
  ELSE IF n.m_char = NIL THEN
    \* Case: NIL
    LET n1 == init(n, key[curr], nullptr, nullptr)
        r  == insert__rec([self EXCEPT !.m_tree_size = @ + 2],
                          n1.m_children[TRUE], w, key, curr + 1)
    IN  [r EXCEPT !.ret = <<[n1 EXCEPT !.m_children[TRUE] = r.ret]>>]
  ELSE IF m_char_comp(self.m_char_comp, key[curr], n.m_char) THEN
    \* Case: Iterator behind
    LET np == insert__behind(p, key[curr])
        r  == insert__rec([self EXCEPT !.m_tree_size = @ + 2],
                          np.m_children[TRUE], w, key, curr + 1)
    IN  [r EXCEPT !.ret = <<[np EXCEPT !.m_children[TRUE] = r.ret]>>]
  ELSE IF m_char_comp(self.m_char_comp, n.m_char, key[curr]) THEN
    \* Case: Iterator ahead
    LET r == insert__rec(self, n.m_children[FALSE], w, key, curr)
    IN  [r EXCEPT !.ret = <<[n EXCEPT !.m_children[FALSE] = r.ret]>>]
  ELSE
    \* Case: Iterator and node matches
    LET r == insert__rec(self, n.m_children[TRUE], w, key, curr + 1)
    IN  [r EXCEPT !.ret = <<[n EXCEPT !.m_children[TRUE] = r.ret]>>]

\* The assertions a call insert__rec(p, w, curr, end) evaluates, those of
\* node::init included: TRUE iff all of them hold.  They are compiled in
\* unless NDEBUG is defined.
RECURSIVE insert__assert(_, _, _, _)
insert__assert(self, p, key, curr) ==
  /\ p # nullptr
  /\ LET n == p[1] IN
     IF curr = Len(key) + 1 THEN TRUE
     ELSE IF n.m_char = NIL THEN
       /\ n.m_children[FALSE] = nullptr /\ n.m_children[TRUE] = nullptr
       /\ key[curr] # NIL
       /\ insert__assert(self, init(n, key[curr], nullptr, nullptr).m_children[TRUE],
                         key, curr + 1)
     ELSE IF m_char_comp(self.m_char_comp, key[curr], n.m_char) THEN
       /\ key[curr] # NIL
       /\ insert__assert(self, insert__behind(p, key[curr]).m_children[TRUE],
                         key, curr + 1)
     ELSE IF m_char_comp(self.m_char_comp, n.m_char, key[curr]) THEN
       insert__assert(self, n.m_children[FALSE], key, curr)
     ELSE
       insert__assert(self, n.m_children[TRUE], key, curr + 1)

\* The number of nested calls of insert__rec that the call
\* insert__rec(p, w, curr, end) reaches, itself included.
RECURSIVE insert__depth(_, _, _, _)
insert__depth(self, p, key, curr) ==
  LET n == p[1] IN
  IF curr = Len(key) + 1 THEN 1
  ELSE IF n.m_char = NIL THEN
    1 + insert__depth(self, init(n, key[curr], nullptr, nullptr).m_children[TRUE],
                      key, curr + 1)
  ELSE IF m_char_comp(self.m_char_comp, key[curr], n.m_char) THEN
    1 + insert__depth(self, insert__behind(p, key[curr]).m_children[TRUE], key, curr + 1)
  ELSE IF m_char_comp(self.m_char_comp, n.m_char, key[curr]) THEN
    1 + insert__depth(self, n.m_children[FALSE], key, curr)
  ELSE
    1 + insert__depth(self, n.m_children[TRUE], key, curr + 1)

\* insert without sorted_word: a faulty variant that descends with the word
\* as it was given.
insert_unsorted(self, w) ==
  LET r == insert__rec(self, self.m_root, w, w, 1)
  IN  [self EXCEPT !.m_root = r.ret, !.m_size = r.m_size, !.m_tree_size = r.m_tree_size]

\* void insert(const T &w), as the object it leaves behind.
insert(self, w) ==
  LET key == sorted_word(self.m_char_comp, w)
      r   == insert__rec(self, self.m_root, w, key, 1)
  IN  [self EXCEPT !.m_root = r.ret, !.m_size = r.m_size, !.m_tree_size = r.m_tree_size]

\* insert(begin, end) with 'if' in the place of 'while': a faulty variant that
\* inserts the first word of the range only.
insert_range_first(self, ws, begin) ==
  IF begin # Len(ws) + 1 THEN insert(self, ws[begin]) ELSE self

\* void insert(InputIt begin, InputIt end), as the object it leaves behind:
\* while (begin != end) { insert(*(begin++)); }.  'begin' is an index into the
\* range 'ws', begin = Len(ws) + 1 being 'end'.
RECURSIVE insert_range(_, _, _)
insert_range(self, ws, begin) ==
  IF begin # Len(ws) + 1
    THEN insert_range(insert(self, ws[begin]), ws, begin + 1)
    ELSE self

\* clear without 'm_tree_size = 1u': a faulty variant.
clear_keep(self) == [self EXCEPT !.m_root = make_node, !.m_size = 0]

\* clear without 'm_size = 0u': a faulty variant.
clear_keep_size(self) == [self EXCEPT !.m_root = make_node, !.m_tree_size = 1]

\* void clear(), as the object it leaves behind.
clear(self) ==
  [self EXCEPT !.m_root = make_node, !.m_size = 0, !.m_tree_size = 1]

\* anatree(char_comp) with 'm_tree_size = 0u': a faulty variant that does not
\* count the root.
anatree_no_root(char_comp) ==
  [m_char_comp |-> char_comp, m_root |-> make_node, m_size |-> 0, m_tree_size |-> 0]

\* anatree(Compare char_comp): the member initialisers of an empty tree.
anatree(char_comp) ==
  [m_char_comp |-> char_comp, m_root |-> make_node, m_size |-> 0, m_tree_size |-> 1]

\* anatree(InputIt first, InputIt last) : anatree() { insert(first, last); }
\* with char_comp the default-constructed Compare() of the instantiation.
anatree_range(char_comp, ws) == insert_range(anatree(char_comp), ws, 1)

(***************************************************************************)
(* Copy construction                                                       *)
(***************************************************************************)
\* static node_ptr deep_copy(const node_ptr &p)
RECURSIVE deep_copy(_)

\* deep_copy with 'np->m_words = p->m_words' inside the case NIL: a faulty
\* variant that loses the words of the nodes that carry a symbol.
deep_copy_nil_words(p) ==
  LET np == make_node[1] IN
  IF p[1].m_char = NIL
    THEN <<[np EXCEPT !.m_words = p[1].m_words]>>
    ELSE <<[np EXCEPT !.m_char = p[1].m_char,
                      !.m_children = [b \in BOOLEAN |-> deep_copy(p[1].m_children[b])]]>>

deep_copy(p) ==
  LET np == make_node[1] IN
  IF p[1].m_char = NIL
    THEN <<[np EXCEPT !.m_words = p[1].m_words]>>
    ELSE <<[np EXCEPT !.m_char = p[1].m_char,
                      !.m_children = [b \in BOOLEAN |-> deep_copy(p[1].m_children[b])],
                      !.m_words = p[1].m_words]>>

\* anatree(const anatree &a)
anatree_copy(a) ==
  [m_char_comp |-> a.m_char_comp, m_root |-> deep_copy(a.m_root),
   m_size |-> a.m_size, m_tree_size |-> a.m_tree_size]

(***************************************************************************)
(* Queries                                                                 *)
(***************************************************************************)
\* const node_ptr& find_node__rec(p, curr, end); m_null is nullptr.
RECURSIVE find_node__rec(_, _, _, _)
find_node__rec(self, p, key, curr) ==
  IF curr = Len(key) + 1 THEN p
  ELSE IF m_char_comp(self.m_char_comp, key[curr], p[1].m_char) \/ p[1].m_char = NIL
    THEN nullptr
  ELSE IF m_char_comp(self.m_char_comp, p[1].m_char, key[curr])
    THEN find_node__rec(self, p[1].m_children[FALSE], key, curr)
  ELSE find_node__rec(self, p[1].m_children[TRUE], key, curr + 1)

\* The number of nested calls of find_node__rec that the call
\* find_node__rec(p, curr, end) reaches, itself included.
RECURSIVE find_node__depth(_, _, _, _)
find_node__depth(self, p, key, curr) ==
  IF curr = Len(key) + 1 THEN 1
  ELSE IF m_char_comp(self.m_char_comp, key[curr], p[1].m_char) \/ p[1].m_char = NIL
    THEN 1
  ELSE IF m_char_comp(self.m_char_comp, p[1].m_char, key[curr])
    THEN 1 + find_node__depth(self, p[1].m_children[FALSE], key, curr)
  ELSE 1 + find_node__depth(self, p[1].m_children[TRUE], key, curr + 1)

\* find_node without sorted_word: a faulty variant that descends with the
\* word as it was given.
find_node_unsorted(self, w) == find_node__rec(self, self.m_root, w, 1)

\* const node_ptr& find_node(const T w)
find_node(self, w) ==
  find_node__rec(self, self.m_root, sorted_word(self.m_char_comp, w), 1)

\* contains with the test of has_anagram_of: a faulty variant that accepts
\* any word whose node holds words.
contains_any(self, w) ==
  LET n == find_node(self, w) IN n # nullptr /\ Cardinality(n[1].m_words) > 0

\* bool contains(const T &w)
contains(self, w) ==
  LET n == find_node(self, w) IN n # nullptr /\ w \in n[1].m_words

\* has_anagram_of without the test of m_words.size(): a faulty variant that
\* accepts any word whose node exists.
has_anagram_of_node(self, w) == find_node(self, w) # nullptr

\* bool has_anagram_of(const T &w)
has_anagram_of(self, w) ==
  LET n == find_node(self, w) IN n # nullptr /\ Cardinality(n[1].m_words) > 0

\* Set anagrams_of(const T &w)
anagrams_of(self, w) ==
  LET n == find_node(self, w) IN IF n # nullptr THEN n[1].m_words ELSE {}

\* subanagrams_of__skip without the loop: a faulty variant that skips nothing.
subanagrams_of__noskip(self, c, key, curr) == curr

\* The loop 'while (m_char_comp(*curr, p->m_char) && curr != end) { ++curr; }'
\* of subanagrams_of__rec, as the cursor it ends at when the call goes on.  At
\* curr = end the conjunction is false whatever '*curr' reads, so the loop
\* stops there; that read itself is subanagrams_of__skip_deref_end.
RECURSIVE subanagrams_of__skip(_, _, _, _)
subanagrams_of__skip(self, c, key, curr) ==
  IF curr # Len(key) + 1 /\ m_char_comp(self.m_char_comp, key[curr], c)
    THEN subanagrams_of__skip(self, c, key, curr + 1)
    ELSE curr

\* void subanagrams_of__rec(p, curr, end, res), as the words it adds to res.
RECURSIVE subanagrams_of__rec(_, _, _, _)
subanagrams_of__rec(self, p, key, curr) ==
  LET n == p[1] IN
  n.m_words \cup
  ( IF n.m_char = NIL THEN {}
    ELSE LET c1 == subanagrams_of__skip(self, n.m_char, key, curr) IN
         IF c1 = Len(key) + 1 THEN {}
         ELSE IF m_char_comp(self.m_char_comp, n.m_char, key[c1])
           THEN subanagrams_of__rec(self, n.m_children[FALSE], key, c1)
         ELSE subanagrams_of__rec(self, n.m_children[FALSE], key, c1 + 1)
              \cup subanagrams_of__rec(self, n.m_children[TRUE], key, c1 + 1) )

\* The number of nested calls of subanagrams_of__rec that the call
\* subanagrams_of__rec(p, curr, end, res) reaches, itself included.
RECURSIVE subanagrams_of__depth(_, _, _, _)
subanagrams_of__depth(self, p, key, curr) ==
  LET n == p[1] IN
  IF n.m_char = NIL THEN 1
  ELSE LET c1 == subanagrams_of__skip(self, n.m_char, key, curr) IN
       IF c1 = Len(key) + 1 THEN 1
       ELSE IF m_char_comp(self.m_char_comp, n.m_char, key[c1])
         THEN 1 + subanagrams_of__depth(self, n.m_children[FALSE], key, c1)
       ELSE LET f == subanagrams_of__depth(self, n.m_children[FALSE], key, c1 + 1)
                t == subanagrams_of__depth(self, n.m_children[TRUE], key, c1 + 1)
            IN  1 + (IF f > t THEN f ELSE t)

\* Set subanagrams_of(const T &w)
subanagrams_of(self, w) ==
  subanagrams_of__rec(self, self.m_root, sorted_word(self.m_char_comp, w), 1)

(***************************************************************************)
(* Reads of '*curr' with curr = end.  T::iterator is any iterator of the   *)
(* word type; reading through the end iterator is undefined behaviour, so  *)
(* a call that does it either goes on with some value or stops the program.*)
(* Each operator is TRUE iff the call evaluates '*curr' with curr = end,   *)
(* following the order in which the source evaluates its conditions.       *)
(***************************************************************************)
\* insert__rec: 'if (curr == end) { ...; return p; }' comes before the first
\* '*curr' of the call, and each case passes on curr or ++curr.
RECURSIVE insert__deref_end(_, _, _, _)
insert__deref_end(self, p, key, curr) ==
  LET n == p[1] IN
  IF curr = Len(key) + 1 THEN FALSE
  ELSE IF n.m_char = NIL
    THEN insert__deref_end(self, init(n, key[curr], nullptr, nullptr).m_children[TRUE],
                           key, curr + 1)
  ELSE IF m_char_comp(self.m_char_comp, key[curr], n.m_char)
    THEN insert__deref_end(self, insert__behind(p, key[curr]).m_children[TRUE],
                           key, curr + 1)
  ELSE IF m_char_comp(self.m_char_comp, n.m_char, key[curr])
    THEN insert__deref_end(self, n.m_children[FALSE], key, curr)
  ELSE insert__deref_end(self, n.m_children[TRUE], key, curr + 1)

\* find_node__rec: 'if (curr == end) { return p; }' comes before the first
\* '*curr' of the call.
RECURSIVE find_node__deref_end(_, _, _, _)
find_node__deref_end(self, p, key, curr) ==
  IF curr = Len(key) + 1 THEN FALSE
  ELSE IF m_char_comp(self.m_char_comp, key[curr], p[1].m_char) \/ p[1].m_char = NIL
    THEN FALSE
  ELSE IF m_char_comp(self.m_char_comp, p[1].m_char, key[curr])
    THEN find_node__deref_end(self, p[1].m_children[FALSE], key, curr)
  ELSE find_node__deref_end(self, p[1].m_children[TRUE], key, curr + 1)

\* The loop 'while (m_char_comp(*curr, p->m_char) && curr != end) { ++curr; }'
\* of subanagrams_of__rec: the left operand of '&&' is evaluated first, so
\* the test made with curr = end reads '*curr' before 'curr != end' ends the
\* loop.
RECURSIVE subanagrams_of__skip_deref_end(_, _, _, _)
subanagrams_of__skip_deref_end(self, c, key, curr) ==
  IF curr = Len(key) + 1 THEN TRUE
  ELSE IF m_char_comp(self.m_char_comp, key[curr], c)
    THEN subanagrams_of__skip_deref_end(self, c, key, curr + 1)
  ELSE FALSE

\* subanagrams_of__rec: the loop is reached with any curr once p carries a
\* symbol; 'if (curr == end) { return; }' comes after it.
RECURSIVE subanagrams_of__deref_end(_, _, _, _)
subanagrams_of__deref_end(self, p, key, curr) ==
  LET n == p[1] IN
  IF n.m_char = NIL THEN FALSE
  ELSE IF subanagrams_of__skip_deref_end(self, n.m_char, key, curr) THEN TRUE
  ELSE LET c1 == subanagrams_of__skip(self, n.m_char, key, curr) IN
       IF m_char_comp(self.m_char_comp, n.m_char, key[c1])
         THEN subanagrams_of__deref_end(self, n.m_children[FALSE], key, c1)
       ELSE \/ subanagrams_of__deref_end(self, n.m_children[FALSE], key, c1 + 1)
            \/ subanagrams_of__deref_end(self, n.m_children[TRUE], key, c1 + 1)

\* size_t size()
size(self) == self.m_size

\* bool empty()
empty(self) == size(self) = 0

\* size_t tree_size()
tree_size(self) == self.m_tree_size

\* keys__rec(word_length, ...) returning all of p->m_words where the source
\* takes one element: a faulty variant.
RECURSIVE keys_len__rec_all(_, _, _)
keys_len__rec_all(word_length, p, true_edges) ==
  IF word_length = true_edges THEN { p[1].m_words }
  ELSE IF p[1].m_char = NIL THEN { {} }
  ELSE { rt \cup rf : rt \in keys_len__rec_all(word_length, p[1].m_children[TRUE], true_edges + 1),
                      rf \in keys_len__rec_all(word_length, p[1].m_children[FALSE], true_edges) }

\* Set keys__rec(word_length, p, true_edges).  '*p->m_words.begin()' is any
\* element of the unordered set, so the result is the set of the sets the call
\* can return.
RECURSIVE keys_len__rec(_, _, _)

\* keys__rec(word_length, ...) taking a word from the NIL node where the tree
\* stops early: a faulty variant that returns words shorter than word_length.
keys_len__rec_early(word_length, p, true_edges) ==
  IF word_length = true_edges \/ p[1].m_char = NIL THEN
    IF Cardinality(p[1].m_words) > 0 THEN { {w} : w \in p[1].m_words } ELSE { {} }
  ELSE { rt \cup rf : rt \in keys_len__rec(word_length, p[1].m_children[TRUE], true_edges + 1),
                      rf \in keys_len__rec(word_length, p[1].m_children[FALSE], true_edges) }

keys_len__rec(word_length, p, true_edges) ==
  IF word_length = true_edges THEN
    IF Cardinality(p[1].m_words) > 0 THEN { {w} : w \in p[1].m_words } ELSE { {} }
  ELSE IF p[1].m_char = NIL THEN { {} }
  ELSE { rt \cup rf : rt \in keys_len__rec(word_length, p[1].m_children[TRUE], true_edges + 1),
                      rf \in keys_len__rec(word_length, p[1].m_children[FALSE], true_edges) }

\* The assertion 'true_edges <= word_length' of keys__rec(word_length, p,
\* true_edges): TRUE iff it holds in the call and in every call it makes.
RECURSIVE keys_len__assert(_, _, _)
keys_len__assert(word_length, p, true_edges) ==
  /\ true_edges <= word_length
  /\ \/ word_length = true_edges
     \/ p[1].m_char = NIL
     \/ /\ keys_len__assert(word_length, p[1].m_children[TRUE], true_edges + 1)
        /\ keys_len__assert(word_length, p[1].m_children[FALSE], true_edges)

\* Set keys(const size_t word_length): the sets the call can return.
keys_len(self, word_length) == keys_len__rec(word_length, self.m_root, 0)

\* The loop of keys__rec over false_idx and true_idx (0-based as in the
\* source, -1 once a key is used up), as the pair of indices it ends with.
RECURSIVE keys__walk(_, _, _, _, _)
keys__walk(self, rec_false_k, rec_true_k, false_idx, true_idx) ==
  IF 0 <= false_idx /\ 0 <= true_idx THEN
    LET false_char == rec_false_k[false_idx + 1]
        true_char  == rec_true_k[true_idx + 1]
    IN  IF m_char_comp(self.m_char_comp, true_char, false_char)
          THEN keys__walk(self, rec_false_k, rec_true_k, false_idx, true_idx - 1)
        ELSE IF false_char = true_char
          THEN keys__walk(self, rec_false_k, rec_true_k, false_idx - 1, true_idx - 1)
        ELSE <<false_idx, true_idx>>
  ELSE <<false_idx, true_idx>>

\* The 'superseeded' flag of keys__rec for one entry of rec_false: case (a),
\* rec_true.contains(rec_false_v), or case (b), the walk uses up both keys
\* for some entry of rec_true.
keys__superseeded(self, rec_true, rec_false_k, rec_false_v) ==
  \/ rec_false_v \in DOMAIN rec_true
  \/ \E rec_true_k \in DOMAIN rec_true :
       LET idx == keys__walk(self, rec_false_k, rec_true_k,
                             Len(rec_false_k) - 1, Len(rec_true_k) - 1)
       IN  idx[1] < 0 /\ idx[2] < 0

\* The Map an internal node p returns from the Maps of its children: the
\* entries of rec_false not superseeded, then those of rec_true (which
\* overwrite), every key with p->m_char pushed back.
keys__merge(self, p, rec_true, rec_false) ==
  LET kept == { k \in DOMAIN rec_false :
                  ~ keys__superseeded(self, rec_true, k, rec_false[k]) }
      from == kept \cup DOMAIN rec_true
  IN  [ curr_key \in { Append(k, p[1].m_char) : k \in from } |->
          LET k == SubSeq(curr_key, 1, Len(curr_key) - 1)
          IN  IF k \in DOMAIN rec_true THEN rec_true[k] ELSE rec_false[k] ]

\* Map keys__rec(const node_ptr &p).  '*p->m_words.begin()' is any element of
\* the unordered set, so the result is the set of the Maps the call can return.
RECURSIVE keys__rec(_, _)
keys__rec(self, p) ==
  IF p[1].m_char = NIL THEN
    IF Cardinality(p[1].m_words) > 0
      THEN { [k \in {<<>>} |-> w] : w \in p[1].m_words }
      ELSE { [k \in {} |-> <<>>] }
  ELSE { keys__merge(self, p, rec_true, rec_false) :
           rec_true \in keys__rec(self, p[1].m_children[TRUE]),
           rec_false \in keys__rec(self, p[1].m_children[FALSE]) }

\* keys collecting the 'first' of every entry of rec_result where the source
\* collects the 'second': a faulty variant that returns the local path keys.
keys_of_paths(self) ==
  { DOMAIN rec_result : rec_result \in keys__rec(self, self.m_root) }

\* Set keys(): the sets the call can return.
keys(self) ==
  { { rec_result[k] : k \in DOMAIN rec_result } : rec_result \in keys__rec(self, self.m_root) }

(***************************************************************************)
(* The state machine                                                       *)
(***************************************************************************)
Alive(o) == anatrees[o] # <<>>

\* Number of words held by the live objects: insert of a new word needs it
\* below MaxWords.
TotalWords ==
  LET n(o) == IF Alive(o) THEN Cardinality(inserted[o]) ELSE 0
  IN  n("a") + n("b")

Init ==
  /\ \E c \in Comparators :
       anatrees = [o \in Objs |-> IF o = "a" THEN <<anatree(c)>> ELSE <<>>]
  /\ inserted = [o \in Objs |-> {}]
  /\ bulk = <<>>
  /\ call = <<>>

\* o.insert(w)
Insert(o, w) ==
  /\ Alive(o)
  /\ w \in inserted[o] \/ TotalWords < MaxWords
  /\ anatrees' = [anatrees EXCEPT ![o] = <<insert(anatrees[o][1], w)>>]
  /\ inserted' = [inserted EXCEPT ![o] = @ \cup {w}]
  /\ bulk' = <<>>
  /\ call' = <<>>

\* o.clear()
Clear(o) ==
  /\ Alive(o)
  /\ anatrees' = [anatrees EXCEPT ![o] = <<clear(anatrees[o][1])>>]
  /\ inserted' = [inserted EXCEPT ![o] = {}]
  /\ bulk' = <<>>
  /\ call' = <<>>

\* anatree b(a): 'b' is copy-constructed from 'a'.
Copy ==
  /\ Alive("a") /\ ~ Alive("b")
  /\ Cardinality(inserted["a"]) < MaxWords
  /\ anatrees' = [anatrees EXCEPT !["b"] = <<anatree_copy(anatrees["a"][1])>>]
  /\ inserted' = [inserted EXCEPT !["b"] = inserted["a"]]
  /\ bulk' = <<>>
  /\ call' = <<>>

\* 'b' goes out of scope.
Destroy ==
  /\ Alive("b")
  /\ anatrees' = [anatrees EXCEPT !["b"] = <<>>]
  /\ inserted' = [inserted EXCEPT !["b"] = {}]
  /\ bulk' = <<>>
  /\ call' = <<>>

\* The ranges of words given to insert(begin, end) and anatree(first, last).
Ranges ==
  UNION { [1..n -> { w \in Words : Len(w) <= MaxRangeLen }] : n \in 0..MaxRange }

\* The words of a range.
RangeWords(ws) == { ws[i] : i \in DOMAIN ws }

\* anatree a(ws.begin(), ws.end()), or anatree a.
InitRange ==
  \E c \in Comparators :
    \/ Init /\ anatrees["a"][1].m_char_comp = c
    \/ \E ws \in Ranges :
         /\ anatrees = [o \in Objs |-> IF o = "a" THEN <<anatree_range(c, ws)>> ELSE <<>>]
         /\ inserted = [o \in Objs |-> IF o = "a" THEN RangeWords(ws) ELSE {}]
         /\ bulk = [pre |-> anatree(c), ws |-> ws]
         /\ call = <<>>

\* o.insert(ws.begin(), ws.end())
InsertRange(o, ws) ==
  /\ Alive(o)
  /\ Cardinality(inserted["a"] \cup inserted["b"] \cup RangeWords(ws)) <= MaxWords
  /\ anatrees' = [anatrees EXCEPT ![o] = <<insert_range(anatrees[o][1], ws, 1)>>]
  /\ inserted' = [inserted EXCEPT ![o] = @ \cup RangeWords(ws)]
  /\ bulk' = [pre |-> anatrees[o][1], ws |-> ws]
  /\ call' = <<>>

\* The program stops, and with it every object: abort() after a failed
\* assertion, or a crash on a read through the end iterator.
Abort ==
  /\ anatrees' = [o \in Objs |-> <<>>]
  /\ inserted' = [o \in Objs |-> {}]
  /\ bulk' = <<>>
  /\ call' = <<>>

\* o.insert(w) for a word that holds the reserved symbol.  Without NDEBUG an
\* assertion that fails aborts; with NDEBUG, or when every assertion holds,
\* the insert goes through.
InsertNil(o, w) ==
  /\ Alive(o)
  /\ w \in inserted[o] \/ TotalWords < MaxWords
  /\ LET self == anatrees[o][1] IN
     \/ /\ ~ insert__assert(self, self.m_root, sorted_word(self.m_char_comp, w), 1)
        /\ Abort
     \/ /\ anatrees' = [anatrees EXCEPT ![o] = <<insert(self, w)>>]
        /\ inserted' = [inserted EXCEPT ![o] = @ \cup {w}]
        /\ bulk' = <<>>
        /\ call' = <<>>

\* One tree: insert and clear.
Next ==
  \/ \E w \in Words : Insert("a", w)
  \/ Clear("a")

Spec == Init /\ [][Next]_vars

\* Two trees: insert and clear on either, copy construction of 'b' from 'a'.
NextCopy ==
  \/ \E o \in Objs, w \in Words : Insert(o, w)
  \/ \E o \in Objs : Clear(o)
  \/ Copy
  \/ Destroy

SpecCopy == Init /\ [][NextCopy]_vars

\* One tree, constructed empty or from a range: insert of a word, insert of a
\* range, clear.
NextRange ==
  \/ \E w \in Words : Insert("a", w)
  \/ \E ws \in Ranges : InsertRange("a", ws)
  \/ Clear("a")

SpecRange == InitRange /\ [][NextRange]_vars

\* One tree whose words may hold the reserved symbol, in either build.
NextNil ==
  \/ \E w \in Words :
       Alive("a") /\ anatrees["a"][1].m_tree_size <= MaxTreeSize /\ Insert("a", w)
  \/ \E w \in NilWords :
       Alive("a") /\ anatrees["a"][1].m_tree_size <= MaxTreeSize /\ InsertNil("a", w)
  \/ Clear("a")

SpecNil == Init /\ [][NextNil]_vars

(***************************************************************************)
(* The member functions step by step.  A call of a member function of 'a'  *)
(* is a stack of frames, one for each call of its recursive helper that    *)
(* has not returned; a step runs the innermost frame up to its next        *)
(* recursive call, loop iteration or return.  The program is sequential:   *)
(* a call that has started keeps running until it returns.                 *)
(***************************************************************************)
\* Bounds of SpecCalls: the symbols of a word given to a call, and the words
\* the tree holds.
MaxCallLen == 2
MaxCallWords == 2

CallWords == { w \in Words : Len(w) <= MaxCallLen }

\* The innermost frame, the stack once it has returned, and the stack with
\* the innermost frame replaced.
Top(stack) == stack[Len(stack)]
Pop(stack) == SubSeq(stack, 1, Len(stack) - 1)
SetTop(stack, f) == [stack EXCEPT ![Len(stack)] = f]

\* The frame of a call of insert__rec, find_node__rec or subanagrams_of__rec
\* on entry: the node p and the cursor curr ('end' is Len(key) + 1).
frame(p, curr) == [p |-> p, curr |-> curr, pc |-> "call"]

\* One step of insert__rec.  Every case but 'Iterator done' is one recursive
\* call followed by 'return p'.
insert__rec_step(self, key, stack) ==
  LET f == Top(stack)
      n == f.p[1]
      recurse(q, c) == Append(SetTop(stack, [f EXCEPT !.pc = "ret"]), frame(q, c))
  IN  IF f.pc = "ret" THEN Pop(stack)
      ELSE IF f.curr = Len(key) + 1
        THEN SetTop(stack, [f EXCEPT !.pc = "ret"])
      ELSE IF n.m_char = NIL
        THEN recurse(init(n, key[f.curr], nullptr, nullptr).m_children[TRUE], f.curr + 1)
      ELSE IF m_char_comp(self.m_char_comp, key[f.curr], n.m_char)
        THEN recurse(insert__behind(f.p, key[f.curr]).m_children[TRUE], f.curr + 1)
      ELSE IF m_char_comp(self.m_char_comp, n.m_char, key[f.curr])
        THEN recurse(n.m_children[FALSE], f.curr)
      ELSE recurse(n.m_children[TRUE], f.curr + 1)

\* One step of find_node__rec.
find_node__rec_step(self, key, stack) ==
  LET f == Top(stack)
      n == f.p[1]
      recurse(q, c) == Append(SetTop(stack, [f EXCEPT !.pc = "ret"]), frame(q, c))
  IN  IF f.pc = "ret" THEN Pop(stack)
      ELSE IF f.curr = Len(key) + 1
        THEN SetTop(stack, [f EXCEPT !.pc = "ret"])
      ELSE IF m_char_comp(self.m_char_comp, key[f.curr], n.m_char) \/ n.m_char = NIL
        THEN SetTop(stack, [f EXCEPT !.pc = "ret"])
      ELSE IF m_char_comp(self.m_char_comp, n.m_char, key[f.curr])
        THEN recurse(n.m_children[FALSE], f.curr)
      ELSE recurse(n.m_children[TRUE], f.curr + 1)

\* The skip loop with an empty body: a faulty variant that leaves the cursor
\* where it is.
subanagrams_of__skip_body_stay(curr) == curr

\* The body '{ ++curr; }' of the skip loop of subanagrams_of__rec.
subanagrams_of__skip_body(curr) == curr + 1

\* One step of subanagrams_of__rec when the call goes on: entry ("call"), one
\* test of the skip loop ("skip"), the cases after the loop ("test"), and the
\* call on the 'true' child after the one on the 'false' child has returned
\* ("after_false").
subanagrams_of__rec_step(self, key, stack) ==
  LET f == Top(stack)
      n == f.p[1]
  IN  IF f.pc = "ret" THEN Pop(stack)
      ELSE IF f.pc = "call"
        THEN SetTop(stack, [f EXCEPT !.pc = IF n.m_char = NIL THEN "ret" ELSE "skip"])
      ELSE IF f.pc = "skip" THEN
        IF f.curr # Len(key) + 1 /\ m_char_comp(self.m_char_comp, key[f.curr], n.m_char)
          THEN SetTop(stack, [f EXCEPT !.curr = subanagrams_of__skip_body(f.curr)])
          ELSE SetTop(stack, [f EXCEPT !.pc = "test"])
      ELSE IF f.pc = "test" THEN
        IF f.curr = Len(key) + 1
          THEN SetTop(stack, [f EXCEPT !.pc = "ret"])
        ELSE IF m_char_comp(self.m_char_comp, n.m_char, key[f.curr])
          THEN Append(SetTop(stack, [f EXCEPT !.pc = "ret"]),
                      frame(n.m_children[FALSE], f.curr))
        ELSE Append(SetTop(stack, [f EXCEPT !.pc = "after_false", !.curr = f.curr + 1]),
                    frame(n.m_children[FALSE], f.curr + 1))
      ELSE Append(SetTop(stack, [f EXCEPT !.pc = "ret"]),
                  frame(n.m_children[TRUE], f.curr))

\* The frame of a call of keys__rec(word_length, p, true_edges) on entry.
keys_len__frame(p, true_edges) == [p |-> p, true_edges |-> true_edges, pc |-> "call"]

\* One step of keys__rec(word_length, p, true_edges): the call on the 'true'
\* child, then ("after_true") the one on the 'false' child, then the merge.
keys_len__rec_step(word_length, stack) ==
  LET f == Top(stack)
      n == f.p[1]
  IN  IF f.pc = "ret" THEN Pop(stack)
      ELSE IF f.pc = "call" THEN
        IF word_length = f.true_edges \/ n.m_char = NIL
          THEN SetTop(stack, [f EXCEPT !.pc = "ret"])
          ELSE Append(SetTop(stack, [f EXCEPT !.pc = "after_true"]),
                      keys_len__frame(n.m_children[TRUE], f.true_edges + 1))
      ELSE Append(SetTop(stack, [f EXCEPT !.pc = "ret"]),
                  keys_len__frame(n.m_children[FALSE], f.true_edges))

\* The frame of a call of keys__rec(p) on entry: the Maps of the children
\* once they have returned, the entries a 'for' loop has yet to visit, the
\* keys of the entries it is at, and the two indices of the 'while' loop.
keys__frame(p) ==
  [p |-> p, pc |-> "call", rec_true |-> <<>>, rec_false |-> <<>>,
   todo_false |-> {}, todo_true |-> {}, rec_false_k |-> <<>>, rec_true_k |-> <<>>,
   false_idx |-> 0, true_idx |-> 0]

\* The body of the loop 'while (0 <= false_idx && 0 <= true_idx)' of
\* keys__rec(p), as the frame after one iteration; "after_while" once the loop
\* breaks.
keys__while_body(self, f) ==
  LET false_char == f.rec_false_k[f.false_idx + 1]
      true_char  == f.rec_true_k[f.true_idx + 1]
  IN  IF m_char_comp(self.m_char_comp, true_char, false_char)
        THEN [f EXCEPT !.true_idx = @ - 1]
      ELSE IF false_char = true_char
        THEN [f EXCEPT !.false_idx = @ - 1, !.true_idx = @ - 1]
      ELSE [f EXCEPT !.pc = "after_while"]

\* The steps of keys() and keys__rec(p): the stacks one step can lead to.  A
\* Map a child returns is any of those keys__rec gives for it, and a 'for'
\* loop visits the entries of a Map in the order of the container, which is
\* any order here.  The outermost frame is that of keys(): the call on m_root
\* ("keys"), then the loop over rec_result ("collect").
keys__rec_steps(self, stack) ==
  LET f == Top(stack)
      n == f.p[1]
      to(g) == SetTop(stack, g)
  IN
  CASE f.pc = "ret" -> { Pop(stack) }
    [] f.pc = "keys" ->
         { Append(to([f EXCEPT !.pc = "after_rec"]), keys__frame(f.p)) }
    [] f.pc = "after_rec" ->
         { to([f EXCEPT !.pc = "collect", !.todo_true = DOMAIN rec_result])
             : rec_result \in keys__rec(self, f.p) }
    [] f.pc = "collect" ->
         IF f.todo_true = {} THEN { to([f EXCEPT !.pc = "ret"]) }
         ELSE { to([f EXCEPT !.todo_true = @ \ {k}]) : k \in f.todo_true }
    [] f.pc = "call" ->
         IF n.m_char = NIL THEN { to([f EXCEPT !.pc = "ret"]) }
         ELSE { Append(to([f EXCEPT !.pc = "after_true"]), keys__frame(n.m_children[TRUE])) }
    [] f.pc = "after_true" ->
         { Append(to([f EXCEPT !.pc = "after_false", !.rec_true = rec_true]),
                  keys__frame(n.m_children[FALSE]))
             : rec_true \in keys__rec(self, n.m_children[TRUE]) }
    [] f.pc = "after_false" ->
         { to([f EXCEPT !.pc = "for_false", !.rec_false = rec_false,
                        !.todo_false = DOMAIN rec_false])
             : rec_false \in keys__rec(self, n.m_children[FALSE]) }
    [] f.pc = "for_false" ->
         IF f.todo_false = {}
           THEN { to([f EXCEPT !.pc = "for_true", !.todo_true = DOMAIN f.rec_true]) }
           ELSE { LET g == [f EXCEPT !.todo_false = @ \ {k}, !.rec_false_k = k]
                  IN  IF f.rec_false[k] \in DOMAIN f.rec_true
                        THEN to(g)
                        ELSE to([g EXCEPT !.pc = "for_inner",
                                          !.todo_true = DOMAIN f.rec_true])
                    : k \in f.todo_false }
    [] f.pc = "for_inner" ->
         IF f.todo_true = {}
           THEN { to([f EXCEPT !.pc = "for_false"]) }
           ELSE { to([f EXCEPT !.pc = "while", !.todo_true = @ \ {k}, !.rec_true_k = k,
                               !.false_idx = Len(f.rec_false_k) - 1,
                               !.true_idx = Len(k) - 1])
                    : k \in f.todo_true }
    [] f.pc = "while" ->
         IF 0 <= f.false_idx /\ 0 <= f.true_idx
           THEN { to(keys__while_body(self, f)) }
           ELSE { to([f EXCEPT !.pc = "after_while"]) }
    [] f.pc = "after_while" ->
         IF f.false_idx < 0 /\ f.true_idx < 0
           THEN { to([f EXCEPT !.pc = "for_false"]) }
           ELSE { to([f EXCEPT !.pc = "for_inner"]) }
    [] f.pc = "for_true" ->
         IF f.todo_true = {} THEN { to([f EXCEPT !.pc = "ret"]) }
         ELSE { to([f EXCEPT !.todo_true = @ \ {k}]) : k \in f.todo_true }

\* The functions that start with find_node(w).
FindOps == {"contains", "has_anagram_of", "anagrams_of"}

\* The lengths given to keys(word_length).
CallLengths == 0..(MaxCallLen + 1)

\* A call of the member function op of 'a' starts: sorted_word(w) where the
\* function takes it, and the first frame.
Call(op, w, word_length, f) ==
  /\ call = <<>>
  /\ Alive("a")
  /\ call' = << [op |-> op, w |-> w,
                 key |-> sorted_word(anatrees["a"][1].m_char_comp, w),
                 word_length |-> word_length, stack |-> <<f>>] >>
  /\ UNCHANGED <<anatrees, inserted, bulk>>

\* a.insert(w) starts.
InsertCall(w) ==
  /\ w \in inserted["a"] \/ Cardinality(inserted["a"]) < MaxCallWords
  /\ Call("insert", w, 0, frame(anatrees["a"][1].m_root, 1))

\* a.contains(w), a.has_anagram_of(w) or a.anagrams_of(w) starts.
FindCall(op, w) == Call(op, w, 0, frame(anatrees["a"][1].m_root, 1))

\* a.subanagrams_of(w) starts.
SubanagramsCall(w) == Call("subanagrams_of", w, 0, frame(anatrees["a"][1].m_root, 1))

\* a.keys(word_length) starts.
KeysLenCall(word_length) ==
  Call("keys_len", <<>>, word_length, keys_len__frame(anatrees["a"][1].m_root, 0))

\* a.keys() starts.
KeysCall ==
  Call("keys", <<>>, 0, [keys__frame(anatrees["a"][1].m_root) EXCEPT !.pc = "keys"])

\* The call that runs is one of ops and has a frame left.
Running(ops) == call # <<>> /\ call[1].op \in ops /\ call[1].stack # <<>>

\* The running call takes a step that leads to the stack s.
Goto(s) ==
  /\ call' = << [call[1] EXCEPT !.stack = s] >>
  /\ UNCHANGED <<anatrees, inserted, bulk>>

InsertStep ==
  /\ Running({"insert"})
  /\ Goto(insert__rec_step(anatrees["a"][1], call[1].key, call[1].stack))

FindStep ==
  /\ Running(FindOps)
  /\ Goto(find_node__rec_step(anatrees["a"][1], call[1].key, call[1].stack))

\* A step of subanagrams_of.  The test of the skip loop made with curr = end
\* reads '*curr': the call goes on, the conjunction being false whatever was
\* read, or the program stops there.
SubanagramsStep ==
  /\ Running({"subanagrams_of"})
  /\ \/ Goto(subanagrams_of__rec_step(anatrees["a"][1], call[1].key, call[1].stack))
     \/ /\ Top(call[1].stack).pc = "skip"
        /\ Top(call[1].stack).curr = Len(call[1].key) + 1
        /\ Abort

KeysLenStep ==
  /\ Running({"keys_len"})
  /\ Goto(keys_len__rec_step(call[1].word_length, call[1].stack))

KeysStep ==
  /\ Running({"keys"})
  /\ \E s \in keys__rec_steps(anatrees["a"][1], call[1].stack) : Goto(s)

\* The outermost frame has returned: the call returns, and insert leaves the
\* tree it has built.
Return ==
  /\ call # <<>>
  /\ call[1].stack = <<>>
  /\ IF call[1].op = "insert"
       THEN /\ anatrees' = [anatrees EXCEPT !["a"] = <<insert(anatrees["a"][1], call[1].w)>>]
            /\ inserted' = [inserted EXCEPT !["a"] = @ \cup {call[1].w}]
       ELSE UNCHANGED <<anatrees, inserted>>
  /\ bulk' = <<>>
  /\ call' = <<>>

\* What a call that has started does next.
Run ==
  \/ InsertStep
  \/ FindStep
  \/ SubanagramsStep
  \/ KeysLenStep
  \/ KeysStep
  \/ Return

\* One tree and one thread of control: calls start while none runs, and a
\* call that runs goes on.
NextCalls ==
  \/ \E w \in CallWords : InsertCall(w)
  \/ \E op \in FindOps, w \in CallWords : FindCall(op, w)
  \/ \E w \in CallWords : SubanagramsCall(w)
  \/ \E word_length \in CallLengths : KeysLenCall(word_length)
  \/ KeysCall
  \/ call = <<>> /\ Clear("a")
  \/ Run

SpecCalls == Init /\ [][NextCalls]_vars /\ WF_vars(Run)

(***************************************************************************)
(* Vocabulary of the properties.  Multisets of symbols are compared by     *)
(* counting, independently of sorted_word.                                 *)
(***************************************************************************)
\* Number of occurrences of the symbol s in the word w.
Count(w, s) == Cardinality({ i \in DOMAIN w : w[i] = s })

\* v and w have the same multiset of symbols.
IsAnagram(v, w) == \A s \in Symbols : Count(v, s) = Count(w, s)

\* The multiset of symbols of v is contained in that of w.
IsSubAnagram(v, w) == \A s \in Symbols : Count(v, s) <= Count(w, s)

\* The object 'a', and the words inserted into it since it was last empty.
A == anatrees["a"][1]
StoredA == inserted["a"]

(***************************************************************************)
(* Properties                                                              *)
(***************************************************************************)
\* C1: round-trip membership.  A step insert(w) leaves contains(w) true, and
\* a word that contains() reports stays reported by every step that is not a
\* clear(), whichever word that step inserts.
C1_RoundTrip ==
  [][ \A w \in Words :
        /\ Insert("a", w) => contains(anatrees'["a"][1], w)
        /\ (contains(A, w) /\ ~ Clear("a")) => contains(anatrees'["a"][1], w) ]_vars

\* C1 witness: a word is found below the 'false' edge of a root whose symbol
\* it does not have, next to a second stored word that has the root's symbol.
C1_Witness ==
  /\ A.m_root[1].m_char # NIL
  /\ \E w, v \in StoredA :
       /\ w # <<>> /\ Count(w, A.m_root[1].m_char) = 0
       /\ Count(v, A.m_root[1].m_char) > 0
       /\ contains(A, w) /\ contains(A, v)

\* C2: contains has no false positives.  Whatever has been inserted, a word
\* that contains() reports has itself been inserted: an anagram, a
\* sub-anagram or a longer word with the same key prefix does not count.
C2_NoFalsePositive ==
  \A w \in Words : contains(A, w) => w \in StoredA

\* C2 witness: "ab" and "b" are stored, "ba" and "a" are not, and contains
\* rejects both.
C2_Witness ==
  /\ {<<1, 2>>, <<2>>} \subseteq StoredA
  /\ <<2, 1>> \notin StoredA /\ <<1>> \notin StoredA
  /\ ~ contains(A, <<2, 1>>) /\ ~ contains(A, <<1>>)

\* C3: anagrams_of(w) is exactly the set of stored words with the multiset
\* of symbols of w (empty when there is none), for every word w.
C3_AnagramsExact ==
  \A w \in Words : anagrams_of(A, w) = { v \in StoredA : IsAnagram(v, w) }

\* C3 witness: two anagrams of "baa" are stored, "baa" is not, anagrams_of("baa")
\* returns both, and anagrams_of("a") is empty.
C3_Witness ==
  /\ {<<1, 2, 1>>, <<1, 1, 2>>} \subseteq StoredA
  /\ <<2, 1, 1>> \notin StoredA
  /\ anagrams_of(A, <<2, 1, 1>>) = {<<1, 2, 1>>, <<1, 1, 2>>}
  /\ anagrams_of(A, <<1>>) = {}

C5_KeysCover ==
  \A r \in keys(A) : \A w \in StoredA : \E k \in r : IsSubAnagram(w, k)

\* C6: minimality of keys().  Whatever keys() returns, no member is a
\* sub-anagram of another member (neither a strict one nor an anagram).
C6_KeysAntichain ==
  \A r \in keys(A) : \A k1, k2 \in r : k1 # k2 => ~ IsSubAnagram(k1, k2)

\* C7: every word that keys() returns is a stored word, one that was
\* inserted and that contains() reports.
C7_KeysStored ==
  \A r \in keys(A) : \A k \in r : k \in StoredA /\ contains(A, k)

\* C7 witness: keys__rec maps a local path key that is no stored word to a
\* stored word, and keys() returns that word.
C7_Witness ==
  \E rec_result \in keys__rec(A, A.m_root) : \E k \in DOMAIN rec_result :
    /\ k \notin StoredA /\ rec_result[k] \in StoredA
    /\ \E r \in keys(A) : rec_result[k] \in r

\* C8: keys(L) returns, for every length L, stored words with exactly L
\* symbols only, and exactly one of every stored anagram class of that length.
C8_KeysLenExact ==
  \A L \in 0..(MaxLen + 1) : \A r \in keys_len(A, L) :
    /\ \A k \in r : k \in StoredA /\ Len(k) = L
    /\ \A v \in StoredA : Len(v) = L => Cardinality({ k \in r : IsAnagram(k, v) }) = 1

\* C8 witness: "ab", "ba" and "c" are stored; keys(2) returns one of the two
\* anagrams, keys(1) returns "c", keys(0) and keys(3) return nothing.
C8_Witness ==
  /\ StoredA = {<<1, 2>>, <<2, 1>>, <<3>>}
  /\ keys_len(A, 2) = { {<<1, 2>>}, {<<2, 1>>} }
  /\ keys_len(A, 1) = { {<<3>>} }
  /\ keys_len(A, 0) = { {} } /\ keys_len(A, 3) = { {} }

\* C9: size accounting.  size() is the number of distinct words inserted
\* (anagrams count separately, a repeated insert does not), and empty() holds
\* exactly when that number is zero.
C9_SizeAccounting ==
  /\ size(A) = Cardinality(StoredA)
  /\ empty(A) <=> StoredA = {}

\* C9 witness: two anagrams and a third word are stored and size() is 3.
C9_Witness ==
  /\ {<<1, 2>>, <<2, 1>>} \subseteq StoredA
  /\ Cardinality(StoredA) = 3 /\ size(A) = 3 /\ ~ empty(A)

\* Number of nodes reachable from p, NIL placeholders included.
RECURSIVE CountNodes(_)
CountNodes(p) ==
  IF p = nullptr THEN 0
  ELSE 1 + CountNodes(p[1].m_children[FALSE]) + CountNodes(p[1].m_children[TRUE])

\* C10: node accounting.  After any sequence of insert, clear and copy,
\* tree_size() of every live tree is the number of nodes reachable from its
\* root, and it is 1 for a tree without words.
C10_NodeAccounting ==
  \A o \in Objs : Alive(o) =>
    /\ tree_size(anatrees[o][1]) = CountNodes(anatrees[o][1].m_root)
    /\ inserted[o] = {} => tree_size(anatrees[o][1]) = 1

\* C10 witness: 'b' was copied from 'a' and the two trees were changed
\* independently since: they hold disjoint sets of words and report
\* different node counts above 1.
C10_Witness ==
  /\ Alive("b")
  /\ tree_size(anatrees["b"][1]) = 9
  /\ tree_size(A) = 5
  /\ StoredA \cap inserted["b"] = {}

\* C11: insert is idempotent.  insert(w) of a word that is already stored
\* returns the object as it was: the same size, the same tree_size, the same
\* tree with the same word set on every node; so anagrams_of and
\* subanagrams_of hold no word twice.
C11_InsertIdempotent ==
  \A w \in StoredA : insert(A, w) = A

\* C11 witness: "ba" is stored next to its anagram "ab" and a third word,
\* below a root that does not carry its first symbol, and inserting it again
\* changes nothing.
C11_Witness ==
  /\ {<<2, 1>>, <<1, 2>>} \subseteq StoredA
  /\ Cardinality(StoredA) = 3
  /\ A.m_root[1].m_char \notin {NIL, 1, 2}
  /\ insert(A, <<2, 1>>) = A

\* The object that default construction followed by insert(w) for each word of
\* ws, in order, leaves behind when started from t.
RECURSIVE InsertEach(_, _)
InsertEach(t, ws) ==
  IF ws = <<>> THEN t
  ELSE insert(InsertEach(t, SubSeq(ws, 1, Len(ws) - 1)), ws[Len(ws)])

\* C12: after insert(begin, end), and after the construction
\* anatree(first, last), the object is exactly the one that insert(w) for each
\* word of the range in order produces from the object the call started from
\* (for the constructor: from a default-constructed tree): the same tree with
\* the same word sets, size and tree_size.  An empty range leaves it unchanged.
C12_RangeIsEach ==
  bulk # <<>> =>
    /\ A = InsertEach(bulk.pre, bulk.ws)
    /\ bulk.ws = <<>> => A = bulk.pre

\* C12 witness: a range of two different words, the second sorting in front
\* of the first, has been inserted into a tree that held a word already.
C12_Witness ==
  /\ bulk # <<>>
  /\ bulk.pre.m_size = 1
  /\ Len(bulk.ws) = 2 /\ bulk.ws[1] # bulk.ws[2]
  /\ size(A) = 3
  /\ A.m_root[1].m_char # bulk.pre.m_root[1].m_char

\* The object 'b'.
B == anatrees["b"][1]

C14_ClearResets ==
  LET c == clear(A) IN
  /\ c = anatree(A.m_char_comp)
  /\ size(c) = 0 /\ empty(c) /\ tree_size(c) = 1
  /\ keys(c) = { {} }
  /\ \A L \in 0..(MaxLen + 1) : keys_len(c, L) = { {} }
  /\ \A w \in Words :
       /\ ~ contains(c, w) /\ ~ has_anagram_of(c, w)
       /\ anagrams_of(c, w) = {} /\ subanagrams_of(c, w) = {}
       /\ insert(c, w) = insert(anatree(A.m_char_comp), w)

\* C14 witness: a tree of three words, the empty word among them, and of more
\* than one node, which clear() turns into the empty tree.
C14_Witness ==
  /\ Cardinality(StoredA) = 3 /\ <<>> \in StoredA
  /\ tree_size(A) > 5
  /\ A # anatree(A.m_char_comp)
  /\ clear(A) = anatree(A.m_char_comp)

\* C15: has_anagram_of(w) holds exactly when anagrams_of(w) is not empty,
\* that is exactly when a stored word has the multiset of symbols of w; a
\* stored strict super-anagram or strict sub-anagram of w does not count, even
\* when the node of the key of w exists.
C15_HasAnagramExact ==
  \A w \in Words :
    /\ has_anagram_of(A, w) <=> anagrams_of(A, w) # {}
    /\ has_anagram_of(A, w) <=> \E v \in StoredA : IsAnagram(v, w)

\* C15 witness: "ab" and "ba" are stored.  The node of the key of "a" exists
\* and has_anagram_of("a") is false; "abc" has the stored strict sub-anagram
\* "ab" and has_anagram_of("abc") is false; has_anagram_of("ab") is true.
C15_Witness ==
  /\ StoredA = {<<1, 2>>, <<2, 1>>}
  /\ find_node(A, <<1>>) # nullptr /\ ~ has_anagram_of(A, <<1>>)
  /\ ~ has_anagram_of(A, <<1, 2, 3>>)
  /\ has_anagram_of(A, <<1, 2>>)

\* No node below p carries NIL and has children.
RECURSIVE NoNilWithChildren(_)
NoNilWithChildren(p) ==
  \/ p = nullptr
  \/ /\ p[1].m_char = NIL =>
          p[1].m_children[FALSE] = nullptr /\ p[1].m_children[TRUE] = nullptr
     /\ NoNilWithChildren(p[1].m_children[FALSE])
     /\ NoNilWithChildren(p[1].m_children[TRUE])

\* C16: an insert of a word that holds the reserved symbol NIL is rejected
\* instead of corrupting the tree: in no reachable state does a live tree
\* have a node that carries NIL and has children, and every word it was given
\* and has kept is one that contains() finds.
C16_NilRejected ==
  \A o \in Objs : Alive(o) =>
    /\ NoNilWithChildren(anatrees[o][1].m_root)
    /\ \A w \in inserted[o] : contains(anatrees[o][1], w)

\* C17: edge inputs are normal cases.  On a tree without words contains and
\* has_anagram_of are false and anagrams_of, subanagrams_of, keys() and
\* keys(L) are empty, for every word and every L; keys(L) is empty on any
\* tree whose stored words are all shorter than L; the empty word is accepted
\* by insert (which stores it) and by every query (which answers by whether
\* it is stored); and none of them raises an error: no assertion of insert
\* or of keys(L) fails, and subanagrams_of of the empty word reads nothing at
\* the end of its key.
C17_EdgeInputs ==
  /\ StoredA = {} =>
       /\ keys(A) = { {} }
       /\ \A L \in 0..(MaxLen + 1) : keys_len(A, L) = { {} }
       /\ \A w \in Words :
            /\ ~ contains(A, w) /\ ~ has_anagram_of(A, w)
            /\ anagrams_of(A, w) = {} /\ subanagrams_of(A, w) = {}
  /\ \A L \in 0..(MaxLen + 1) :
       /\ keys_len__assert(L, A.m_root, 0)
       /\ (\A v \in StoredA : Len(v) < L) => keys_len(A, L) = { {} }
  /\ insert__assert(A, A.m_root, sorted_word(A.m_char_comp, <<>>), 1)
  /\ contains(insert(A, <<>>), <<>>)
  /\ size(insert(A, <<>>)) = Cardinality(StoredA \cup {<<>>})
  /\ contains(A, <<>>) <=> <<>> \in StoredA
  /\ has_anagram_of(A, <<>>) <=> <<>> \in StoredA
  /\ anagrams_of(A, <<>>) = StoredA \cap {<<>>}
  /\ subanagrams_of(A, <<>>) = StoredA \cap {<<>>}
  /\ ~ subanagrams_of__deref_end(A, A.m_root, <<>>, 1)

\* The state C17 is about: the empty word is stored next to "ab" and "c"; keys(3) is
\* empty, keys(0) returns the empty word, and subanagrams_of("") returns the
\* empty word alone.
C17_Witness ==
  /\ StoredA = {<<>>, <<1, 2>>, <<3>>}
  /\ keys_len(A, 3) = { {} }
  /\ keys_len(A, 0) = { {<<>>} }
  /\ contains(A, <<>>)
  /\ subanagrams_of(A, <<>>) = {<<>>}

\* C18: a tree that has received a single word, of L symbols (repeated or
\* not), since it was empty has tree_size 2L + 1; and insert of the empty
\* word leaves the tree_size of any tree as it was.
C18_FirstWordNodes ==
  /\ \A w \in StoredA : StoredA = {w} => tree_size(A) = 2 * Len(w) + 1
  /\ tree_size(insert(A, <<>>)) = tree_size(A)

\* C18 witness: "bab" alone is stored, in a tree of 7 nodes, and the empty
\* word is not stored yet.
C18_Witness ==
  /\ StoredA = {<<2, 1, 2>>}
  /\ tree_size(A) = 7
  /\ size(insert(A, <<>>)) = 2 /\ tree_size(insert(A, <<>>)) = 7

\* C19: the comparator decides the shape, not the contents.  The tree that
\* has received "bc" and "abc" has tree_size 11 under std::less and 7 under
\* std::greater; under both its size is 2, anagrams_of("abc") is {"abc"} and
\* anagrams_of("bc") is {"bc"}.
C19_ComparatorShape ==
  StoredA = {<<2, 3>>, <<1, 2, 3>>} =>
    /\ tree_size(A) = (IF A.m_char_comp = "less" THEN 11 ELSE 7)
    /\ size(A) = 2
    /\ anagrams_of(A, <<1, 2, 3>>) = {<<1, 2, 3>>}
    /\ anagrams_of(A, <<2, 3>>) = {<<2, 3>>}

\* C19 witness: "bc" and "abc" are stored under std::greater; the root
\* carries "c", and "bc" sits on the node that carries "a".
C19_Witness ==
  /\ StoredA = {<<2, 3>>, <<1, 2, 3>>}
  /\ A.m_char_comp = "greater"
  /\ A.m_root[1].m_char = 3
  /\ find_node(A, <<2, 3>>)[1].m_char = 1
  /\ tree_size(A) = 7

\* The paths (sequences of edges from the root p) of the nodes below p.
RECURSIVE Paths(_)
Paths(p) ==
  IF p = nullptr THEN {}
  ELSE {<<>>} \cup UNION { { <<b>> \o q : q \in Paths(p[1].m_children[b]) } : b \in BOOLEAN }

\* The node at the end of a path from p.
RECURSIVE NodeAt(_, _)
NodeAt(p, path) ==
  IF path = <<>> THEN p[1] ELSE NodeAt(p[1].m_children[Head(path)], Tail(path))

\* The descent of a sorted key from p: the 'true' edge and the next symbol
\* where the node carries the symbol of the key, the 'false' edge where the
\* symbol of the key sorts after it.  The result is <<path>> for the node on
\* which the key is used up, and <<>> when the descent does not get there.
RECURSIVE Arrival(_, _, _, _, _)
Arrival(cmp, p, key, curr, path) ==
  IF curr = Len(key) + 1 THEN <<path>>
  ELSE IF p[1].m_char = NIL THEN <<>>
  ELSE IF p[1].m_char = key[curr]
    THEN Arrival(cmp, p[1].m_children[TRUE], key, curr + 1, Append(path, TRUE))
  ELSE IF m_char_comp(cmp, p[1].m_char, key[curr])
    THEN Arrival(cmp, p[1].m_children[FALSE], key, curr, Append(path, FALSE))
  ELSE <<>>

\* C20: terminal assignment.  In every reachable state the word set of every
\* node is exactly the set of the inserted words whose sorted key is used up
\* on arrival at that node in the descent from the root; so insert keeps every
\* earlier word on the node of its key, also when it puts a new node in front
\* of an existing one and hands the words of that node to the new one.
C20_TerminalAssignment ==
  \A path \in Paths(A.m_root) :
    NodeAt(A.m_root, path).m_words =
      { w \in StoredA :
          Arrival(A.m_char_comp, A.m_root, sorted_word(A.m_char_comp, w), 1, <<>>)
            = <<path>> }

\* C20 witness: "b" and the empty word were stored before "ab" was; the new
\* root carries "a" and holds the empty word, the demoted node carries "b" and
\* holds no word, and "b" is on the NIL node below its 'true' edge.
C20_Witness ==
  /\ StoredA = {<<>>, <<2>>, <<1, 2>>}
  /\ A.m_char_comp = "less"
  /\ A.m_root[1].m_char = 1 /\ A.m_root[1].m_words = {<<>>}
  /\ NodeAt(A.m_root, <<FALSE>>).m_char = 2
  /\ NodeAt(A.m_root, <<FALSE>>).m_words = {}
  /\ NodeAt(A.m_root, <<FALSE, TRUE>>).m_words = {<<2>>}
  /\ NodeAt(A.m_root, <<TRUE, TRUE>>).m_words = {<<1, 2>>}

\* Below p every node that carries NIL has no child, and every node that
\* carries a symbol has both children, each of them such a node again.
RECURSIVE WellFormed(_)
WellFormed(p) ==
  /\ p # nullptr
  /\ IF p[1].m_char = NIL
       THEN p[1].m_children[FALSE] = nullptr /\ p[1].m_children[TRUE] = nullptr
       ELSE WellFormed(p[1].m_children[FALSE]) /\ WellFormed(p[1].m_children[TRUE])

\* C21: structure of the nodes.  In every reachable state of every live tree
\* the root is there, every node that carries NIL has both child slots empty,
\* and every node that carries a symbol has both children; no node has exactly
\* one child.
C21_NodeStructure ==
  \A o \in Objs : Alive(o) =>
    /\ anatrees[o][1].m_root # nullptr
    /\ WellFormed(anatrees[o][1].m_root)
    /\ \A path \in Paths(anatrees[o][1].m_root) :
         LET n == NodeAt(anatrees[o][1].m_root, path)
         IN  (n.m_children[FALSE] = nullptr) <=> (n.m_children[TRUE] = nullptr)

\* C21 witness: 'b' is a copy of a tree of 7 nodes in which a node was put in
\* front of the old root; both trees have nodes that carry a symbol and nodes
\* that carry NIL.
C21_Witness ==
  /\ Alive("b")
  /\ StoredA = {<<2>>, <<1, 2>>} /\ inserted["b"] = StoredA
  /\ tree_size(B) = 7
  /\ B.m_root[1].m_char = IF B.m_char_comp = "less" THEN 1 ELSE 2
  /\ \E path \in Paths(B.m_root) : path # <<>> /\ NodeAt(B.m_root, path).m_char # NIL
  /\ \E path \in Paths(B.m_root) : NodeAt(B.m_root, path).m_char = NIL

\* The symbols of the nodes that a path from p reaches over a 'true' edge, in
\* the order of the path (NIL nodes carry no symbol and are left out).
RECURSIVE TrueReached(_, _)
TrueReached(p, path) ==
  IF path = <<>> THEN <<>>
  ELSE LET c == p[1].m_children[Head(path)]
       IN  (IF Head(path) /\ c[1].m_char # NIL THEN <<c[1].m_char>> ELSE <<>>)
             \o TrueReached(c, Tail(path))

\* C22 as stated: along every path from the root, the symbols of the nodes
\* reached over the 'true' edge are strictly increasing under the comparator
\* of the tree, also for words with repeated symbols.
C22_TrueStrictlyIncreasing ==
  \A path \in Paths(A.m_root) :
    LET syms == TrueReached(A.m_root, path)
    IN  \A i \in 1..(Len(syms) - 1) : m_char_comp(A.m_char_comp, syms[i], syms[i + 1])

\* C22, amended: along every path from the root, the symbols of the nodes
\* reached over the 'true' edge never decrease under the comparator of the
\* tree, and two neighbours are equal only where a stored word has that symbol
\* more than once.
C22_TrueNonDecreasing ==
  \A path \in Paths(A.m_root) :
    LET syms == TrueReached(A.m_root, path)
    IN  \A i \in 1..(Len(syms) - 1) :
          /\ ~ m_char_comp(A.m_char_comp, syms[i + 1], syms[i])
          /\ syms[i] = syms[i + 1] => \E w \in StoredA : Count(w, syms[i]) > 1

\* C22 witness: "aaa" and "abb" are stored under std::less; one path reaches
\* "a" and "a" again over 'true' edges, another "a" and then "b".
C22_Witness ==
  /\ StoredA = {<<1, 1, 1>>, <<1, 2, 2>>}
  /\ A.m_char_comp = "less"
  /\ TrueReached(A.m_root, <<TRUE, TRUE>>) = <<1, 1>>
  /\ TrueReached(A.m_root, <<TRUE, FALSE, TRUE>>) = <<1, 2>>

\* The symbols that occur in the stored words.
StoredSymbols == { c \in Symbols : \E w \in StoredA : Count(w, c) > 0 }

\* C23 as stated: the recursion depth of insert, of contains and anagrams_of
\* (find_node__rec) and of subanagrams_of is at most the length of the key of
\* the word plus 1, whatever the tree holds.
C23_DepthByKeyLength ==
  \A w \in Words :
    LET key == sorted_word(A.m_char_comp, w) IN
    /\ insert__depth(A, A.m_root, key, 1) <= Len(key) + 1
    /\ find_node__depth(A, A.m_root, key, 1) <= Len(key) + 1
    /\ subanagrams_of__depth(A, A.m_root, key, 1) <= Len(key) + 1

\* C23, amended: the recursion depth of insert, of contains and anagrams_of
\* and of subanagrams_of is at most the length of the key plus 1 plus the
\* number of distinct symbols of the stored words (each 'false' edge of the
\* descent is one more call with the cursor where it was).
C23_DepthByKeyAndSymbols ==
  \A w \in Words :
    LET key == sorted_word(A.m_char_comp, w) IN
    /\ insert__depth(A, A.m_root, key, 1) <= Len(key) + 1 + Cardinality(StoredSymbols)
    /\ find_node__depth(A, A.m_root, key, 1) <= Len(key) + 1 + Cardinality(StoredSymbols)
    /\ subanagrams_of__depth(A, A.m_root, key, 1) <= Len(key) + 1 + Cardinality(StoredSymbols)

\* C23 witness: "a", "b" and "c" are stored under std::less; the descents of
\* insert("c") and of contains("c") are 4 calls deep for a key of length 1.
C23_Witness ==
  /\ StoredA = {<<1>>, <<2>>, <<3>>}
  /\ A.m_char_comp = "less"
  /\ insert__depth(A, A.m_root, <<3>>, 1) = 4
  /\ find_node__depth(A, A.m_root, <<3>>, 1) = 4
  /\ subanagrams_of__depth(A, A.m_root, <<3>>, 1) = 4

\* The tree that insert builds from the empty tree t for the words of S,
\* taken in one fixed order.
RECURSIVE InsertAll(_, _)
InsertAll(t, S) ==
  IF S = {} THEN t
  ELSE LET w == CHOOSE w \in S : TRUE
       IN  insert(InsertAll(t, S \ {w}), w)

\* C25: the order of the inserts does not matter.  Every reachable tree,
\* whatever the order and the repetitions of the inserts that built it, is
\* the tree that one fixed order of its words builds: same shape, same symbol
\* and same word set on every node, same size and tree_size.
C25_OrderIndependent ==
  A = InsertAll(anatree(A.m_char_comp), StoredA)

\* C25 witness: the empty word, "b" and "ab" are stored; inserting "ab" last
\* puts a node in front of the root and hands it the empty word, inserting
\* it first does not, and the tree is the same.
C25_Witness ==
  /\ StoredA = {<<>>, <<2>>, <<1, 2>>}
  /\ A.m_char_comp = "less"
  /\ insert(insert(insert(anatree("less"), <<>>), <<2>>), <<1, 2>>) = A
  /\ insert(insert(insert(anatree("less"), <<1, 2>>), <<2>>), <<>>) = A
  /\ A.m_root[1].m_words = {<<>>}

\* C26: a node that is the 'false' child of a node holds no word.  Words are
\* on the root and on 'true' children only.
C26_FalseChildNoWords ==
  \A path \in Paths(A.m_root) :
    (path # <<>> /\ ~ path[Len(path)]) => NodeAt(A.m_root, path).m_words = {}

\* C26 witness: the empty word, "b" and "a" are stored under std::less.  The
\* node that carries "b" is the 'false' child of the root and holds no word
\* (the empty word, which it held while it was the root, is on the root), and
\* "a" and "b" are on 'true' children.
C26_Witness ==
  /\ StoredA = {<<>>, <<2>>, <<1>>}
  /\ A.m_char_comp = "less"
  /\ A.m_root[1].m_words = {<<>>}
  /\ NodeAt(A.m_root, <<FALSE>>).m_char = 2
  /\ NodeAt(A.m_root, <<FALSE>>).m_words = {}
  /\ NodeAt(A.m_root, <<TRUE>>).m_words = {<<1>>}
  /\ NodeAt(A.m_root, <<FALSE, TRUE>>).m_words = {<<2>>}

\* The calls of the descent of a sorted key from p, as pairs <<path, curr>> of
\* the node reached and of the cursor on arrival (the descent of Arrival).
RECURSIVE Descent(_, _, _, _, _)
Descent(cmp, p, key, curr, path) ==
  {<<path, curr>>} \cup
  ( IF curr = Len(key) + 1 \/ p[1].m_char = NIL THEN {}
    ELSE IF p[1].m_char = key[curr]
      THEN Descent(cmp, p[1].m_children[TRUE], key, curr + 1, Append(path, TRUE))
    ELSE IF m_char_comp(cmp, p[1].m_char, key[curr])
      THEN Descent(cmp, p[1].m_children[FALSE], key, curr, Append(path, FALSE))
    ELSE {} )

\* Some stored key takes the 'true' edge of the node at 'path' and goes on
\* with the symbol of that node once more.
RepeatsAt(path) ==
  \E w \in StoredA :
    LET key == sorted_word(A.m_char_comp, w)
        d   == Descent(A.m_char_comp, A.m_root, key, 1, <<>>)
    IN  \E i \in 1..(Len(key) - 1) :
          /\ <<path, i>> \in d /\ <<Append(path, TRUE), i + 1>> \in d
          /\ key[i + 1] = key[i]

RECURSIVE CountWords(_)
CountWords(p) ==
  IF p = nullptr THEN 0
  ELSE Cardinality(p[1].m_words)
         + CountWords(p[1].m_children[FALSE]) + CountWords(p[1].m_children[TRUE])

\* C28: every stored word is in the word set of exactly one node (and the
\* nodes hold stored words only), and size() is the sum of the cardinalities
\* of the word sets of all nodes.
C28_OneNodePerWord ==
  /\ \A w \in StoredA :
       Cardinality({ path \in Paths(A.m_root) : w \in NodeAt(A.m_root, path).m_words }) = 1
  /\ \A path \in Paths(A.m_root) : NodeAt(A.m_root, path).m_words \subseteq StoredA
  /\ size(A) = CountWords(A.m_root)

\* C28 witness: the empty word, "a" and "ba" are stored; the empty word was
\* handed from one root to the next, and three nodes hold one word each.
C28_Witness ==
  /\ StoredA = {<<>>, <<1>>, <<2, 1>>}
  /\ A.m_root[1].m_words = {<<>>}
  /\ Cardinality({ path \in Paths(A.m_root) : NodeAt(A.m_root, path).m_words # {} }) = 3
  /\ CountWords(A.m_root) = 3 /\ size(A) = 3

\* q starts with p.
IsPrefix(p, q) == Len(p) <= Len(q) /\ SubSeq(q, 1, Len(p)) = p

\* C29: every NIL node that is a 'true' child holds a word; so every node
\* that carries a symbol has a stored word below its 'true' child, and every
\* word on a node that carries a symbol is a strict sub-anagram of a word on a
\* NIL node below that node.
C29_LeavesHoldWords ==
  \A path \in Paths(A.m_root) :
    LET n == NodeAt(A.m_root, path) IN
    /\ (path # <<>> /\ path[Len(path)] /\ n.m_char = NIL) => n.m_words # {}
    /\ n.m_char # NIL =>
         /\ \E q \in Paths(A.m_root) :
              IsPrefix(Append(path, TRUE), q) /\ NodeAt(A.m_root, q).m_words # {}
         /\ \A w \in n.m_words :
              \E q \in Paths(A.m_root) :
                /\ IsPrefix(path, q) /\ q # path
                /\ NodeAt(A.m_root, q).m_char = NIL
                /\ \E v \in NodeAt(A.m_root, q).m_words :
                     IsSubAnagram(w, v) /\ ~ IsAnagram(w, v)

\* C29 witness: "b" and "ab" are stored under std::greater, "b" on a node
\* that carries "a" and whose 'true' child is the NIL node that holds "ab";
\* "c" is stored on the NIL node below the 'true' edge of the root.
C29_Witness ==
  /\ StoredA = {<<2>>, <<1, 2>>, <<3>>}
  /\ A.m_char_comp = "greater"
  /\ NodeAt(A.m_root, <<TRUE>>).m_char = NIL
  /\ NodeAt(A.m_root, <<TRUE>>).m_words = {<<3>>}
  /\ NodeAt(A.m_root, <<FALSE, TRUE>>).m_char = 1
  /\ NodeAt(A.m_root, <<FALSE, TRUE>>).m_words = {<<2>>}
  /\ NodeAt(A.m_root, <<FALSE, TRUE, TRUE>>).m_words = {<<1, 2>>}

\* C30: no traversal reads the key symbol at the cursor when the cursor is at
\* the end of the key: for every stored tree and every word, insert__rec,
\* find_node__rec and subanagrams_of__rec (its skip loop included) evaluate
\* '*curr' only while curr != end.
C30_NoReadAtEnd ==
  \A w \in Words :
    LET key == sorted_word(A.m_char_comp, w) IN
    /\ ~ insert__deref_end(A, A.m_root, key, 1)
    /\ ~ find_node__deref_end(A, A.m_root, key, 1)
    /\ ~ subanagrams_of__deref_end(A, A.m_root, key, 1)

\* The two halves that do hold: insert__rec and find_node__rec test
\* 'curr == end' before they read.
C30_GuardedDescents ==
  \A w \in Words :
    LET key == sorted_word(A.m_char_comp, w) IN
    /\ ~ insert__deref_end(A, A.m_root, key, 1)
    /\ ~ find_node__deref_end(A, A.m_root, key, 1)

\* The two inputs the claim names: subanagrams_of("ab") on the tree of
\* { "c", "cc" } and subanagrams_of("") on a non-empty tree read at the end.
C30_ReadAtEnd ==
  /\ A.m_char_comp = "less"
  /\ StoredA = {<<3>>, <<3, 3>>}
  /\ subanagrams_of__deref_end(A, A.m_root, <<1, 2>>, 1)
  /\ subanagrams_of__deref_end(A, A.m_root, <<>>, 1)

\* C24: every operation terminates.  A call of insert, contains,
\* has_anagram_of, anagrams_of, subanagrams_of, keys() or keys(L) that has
\* started on a reachable tree returns after finitely many steps.
C24_Terminates == (call # <<>>) ~> (call = <<>>)

\* C24 witness: subanagrams_of runs three calls deep, the innermost in its
\* skip loop with the cursor advanced.
C24_Witness ==
  /\ call # <<>>
  /\ call[1].op = "subanagrams_of"
  /\ Len(call[1].stack) = 3
  /\ Top(call[1].stack).pc = "skip"
  /\ Top(call[1].stack).curr > 1


====
